---- MODULE Spec2Model ----
(***************************************************************************)
(* A model of the h2ws server mesh (src/mesh.mjs, the third and most       *)
(* complete Mesh class, lines 352-722): the coordinating process of every  *)
(* node, the shared directory (the redis registration strategy), the       *)
(* inbound handshake of the mesh listener and the outbound connections.    *)
(***************************************************************************)
EXTENDS Integers, Sequences, FiniteSets, TLC

\* ------------------------------------------------------------------------
\* Bounds
\* ------------------------------------------------------------------------
NumNodes == 2
MaxSessions == 2
MaxStreams == 2
MaxWsSteps == 3

Node == 1..NumNodes

\* ------------------------------------------------------------------------
\* JavaScript values
\* ------------------------------------------------------------------------
\* The value of an absent header or an absent property; used as an object
\* key it is the string "undefined".
Undefined == "undefined"

\* An object without properties.
EmptyObj == [k \in {} |-> Undefined]

Put(obj, k, v) == [x \in (DOMAIN obj) \cup {k} |-> IF x = k THEN v ELSE obj[x]]

Delete(obj, k) == [x \in (DOMAIN obj) \ {k} |-> obj[x]]

\* ------------------------------------------------------------------------
\* Configuration and identity
\* ------------------------------------------------------------------------
ConfigPort(n) == 9000 + n

ConfigIp(n) == "10.0.0." \o ToString(n)

\* #meshPort = config.port || 8080
MeshPort(n) == IF ConfigPort(n) # 0 THEN ConfigPort(n) ELSE 8080

\* #meshIp keeps its field initialiser: the constructor never assigns it.
MeshIp(n) == "localhost"

\* (variant: the key is the ip alone)
IpAndPort_IpOnly(ip, port) == ip

\* `${ip}:${port}`
IpAndPort(ip, port) == ip \o ":" \o port

\* `${this.#meshIp}:${this.#meshPort}`
Self(n) == IpAndPort(MeshIp(n), ToString(MeshPort(n)))

localhostVariants == {"localhost", "127.0.0.1", "::1"}

\* A port no URL can carry: http2.connect throws on `http://localhost:99999`.
BadPort == "99999"

BadEntry == IpAndPort("localhost", BadPort)

\* Every "ip:port" string the directory can hold in this model.
Entry == {Self(n) : n \in Node} \cup {BadEntry}

\* new URL(`http://${entry}`) throws (ERR_INVALID_URL)
ConnectThrows(e) == e = BadEntry

\* The node whose listener is bound to the address an entry names (0: none).
NodeAt(e) == IF \E b \in Node : Self(b) = e
             THEN CHOOSE b \in Node : Self(b) = e
             ELSE 0

\* Addresses a socket accepted by a listener bound to localhost can show:
\* one of the loopback variants and one that is not.
RemoteAddr == {"127.0.0.1", "127.0.0.2"}

\* The address of a connection coming from a mesh node: every node connects
\* to `http://localhost:<port>`, which this host resolves to 127.0.0.1.
NodeAddr == {"127.0.0.1"}

\* Header values an arbitrary client can send: a loopback variant, the
\* address above that is none, an address no socket shows, or no header.
HeaderIp == {"localhost", "127.0.0.2", "127.0.0.3", Undefined}

HeaderPort == {"9002", Undefined}

VARIABLES
  directory,     \* the set behind the registration strategy (redis set)
  pc,            \* pc[n]: position of node n's coordinating process
  otherServers,  \* otherServers[n]: the list start() got, while it is in scope
  todo,          \* todo[n]: entries the connect loop has not reached yet
  out,           \* out[n][e]: node n's outbound session/stream to entry e
  server,        \* server[n]: state of #meshHttp2Server
  regCalled,     \* regCalled[n]: #registerServerFn has been called
  workers,       \* workers[n]: the cluster workers of node n
  sessions,      \* sessions[n]: inbound sessions of n's listener, in order
  streams,       \* streams[n]: inbound streams of n's listener, by handle
  bySession,     \* #knownServerConnections.bySession of node n
  byIPAndPort,   \* #knownServerConnections.byIPAndPort of node n
  ev,            \* the handler that produced this state, with its inputs
  shutLog,       \* shutLog[n]: steps of the shutdown handler, in order
  currentFrameFragments,  \* WsH2Stream.#currentFrameFragments of a channel
  wsWritten,     \* the buffers the channel wrote to its #stream, in order
  wsEmitted,     \* the events the channel emitted, in order
  wsStreamEnded, \* #stream.end() has been called
  wsSteps,       \* chunks received and methods called on the channel
  h2Streams      \* the streams an H2Session received, with the calls made on each

vars == <<directory, pc, otherServers, todo, out, server, regCalled, workers,
          sessions, streams, bySession, byIPAndPort, ev, shutLog,
          currentFrameFragments, wsWritten, wsEmitted, wsStreamEnded, wsSteps,
          h2Streams>>

meshVars == <<directory, pc, otherServers, todo, out, server, regCalled, workers,
              sessions, streams, bySession, byIPAndPort, shutLog>>

wsVars == <<currentFrameFragments, wsWritten, wsEmitted, wsStreamEnded, wsSteps>>

h2Vars == <<h2Streams>>

nodeVars == <<pc, otherServers, todo, server, regCalled, workers, shutLog>>

inVars == <<sessions, streams, bySession, byIPAndPort>>

\* ------------------------------------------------------------------------
\* The directory: Mesh.redisServerRegistrationStrategy
\* ------------------------------------------------------------------------
\* registerServer(ip, port): sAdd(key, `${ip}:${port}`)
RegisterServer(dir, ip, port) == dir \cup {IpAndPort(ip, port)}

\* getOtherMeshServes(): sMembers(key)
GetOtherMeshServes(dir) == dir

\* (variant: the unRegisterServer of the earlier drafts, always two arguments)
UnRegisterServer_TwoArguments(dir, ip, port) == dir \ {IpAndPort(ip, port)}

\* unRegisterServer(ipPortOrIp, port): with port undefined the first
\* argument is the whole "ip:port" member
UnRegisterServer(dir, ipPortOrIp, port) ==
  IF port = Undefined
  THEN dir \ {ipPortOrIp}
  ELSE dir \ {IpAndPort(ipPortOrIp, port)}

\* ------------------------------------------------------------------------
\* Objects
\* ------------------------------------------------------------------------
\* An outbound session and its request stream, as node n holds them.
NoOut == [st |-> "none", status |-> 0, attached |-> FALSE, pinged |-> FALSE]

\* The id of the first stream a client opens on a session.
OutStreamId == 1

\* session.id and stream.session.sessionId: an Http2Session has neither
\* property, both reads give undefined.
SessionDotId(s) == Undefined

SessionDotSessionId(s) == Undefined

StreamsOn(n, s) == {h \in DOMAIN streams[n] : h[1] = s}

\* The id of the next stream a client opens on session s: 1, 3, 5, ...
NextStreamId(n, s) == 2 * Cardinality(StreamsOn(n, s)) + 1

\* No handler of interest produced this state.
NoEv == [op |-> "none", node |-> 0, hset |-> {}, keys |-> {}, ip |-> Undefined,
         port |-> Undefined, addr |-> Undefined, e |-> Undefined,
         list |-> {}, pre |-> EmptyObj, preS |-> EmptyObj, preDir |-> {},
         data |-> Undefined, sent |-> {}, emitted |-> << >>,
         chunk |-> << >>, frag |-> [kind |-> "none"], threw |-> FALSE,
         preFrags |-> << >>, preW |-> 0, preE |-> 0, preEnded |-> FALSE,
         status |-> 0, request |-> [present |-> FALSE, value |-> << >>],
         accepted |-> << >>, response |-> [present |-> FALSE, value |-> << >>]]

\* The event loop of the coordinating process is running.
Alive(n) == pc[n] \in {"connecting", "started", "registering", "sigint", "exiting"}

\* The process of node n has ended: its objects are gone.
Gone(f, n, v) == [f EXCEPT ![n] = v]

Init ==
  /\ directory \in SUBSET Entry
  /\ pc = [n \in Node |-> "constructed"]
  /\ otherServers = [n \in Node |-> {}]
  /\ todo = [n \in Node |-> {}]
  /\ out = [n \in Node |-> [e \in Entry |-> NoOut]]
  /\ server = [n \in Node |-> "none"]
  /\ regCalled = [n \in Node |-> FALSE]
  /\ workers = [n \in Node |-> "connected"]
  /\ sessions = [n \in Node |-> << >>]
  /\ streams = [n \in Node |-> EmptyObj]
  /\ bySession = [n \in Node |-> EmptyObj]
  /\ byIPAndPort = [n \in Node |-> EmptyObj]
  /\ ev = NoEv
  /\ shutLog = [n \in Node |-> << >>]
  /\ currentFrameFragments = << >>
  /\ wsWritten = << >>
  /\ wsEmitted = << >>
  /\ wsStreamEnded = FALSE
  /\ wsSteps = 0
  /\ h2Streams = << >>

\* ------------------------------------------------------------------------
\* start() and #connectToMeshServers
\* ------------------------------------------------------------------------
\* start(), primary branch, up to the first await: the list is fetched.
Start(n) ==
  /\ pc[n] = "constructed"
  /\ otherServers' = [otherServers EXCEPT ![n] = GetOtherMeshServes(directory)]
  /\ todo' = [todo EXCEPT ![n] = GetOtherMeshServes(directory)]
  /\ pc' = [pc EXCEPT ![n] = "connecting"]
  /\ UNCHANGED wsVars
  /\ UNCHANGED h2Vars
  /\ ev' = NoEv
  /\ UNCHANGED <<directory, out, server, regCalled, workers, shutLog>>
  /\ UNCHANGED inVars

\* (variant: the list is not filtered)
FilterItself_Nothing(list, n) == list

\* .filter((serverIpAndPort) => serverIpAndPort !== `${meshIp}:${meshPort}`)
FilterItself(list, n) == {e \in list : e # Self(n)}

\* The loop body without a throw: http2.connect, session.request and the
\* handlers; the session is connecting, the request is queued on it.
Attempt(o, batch) ==
  [e \in Entry |-> IF e \in batch
                   THEN [NoOut EXCEPT !.st = "connecting"]
                   ELSE o[e]]

\* (variant: the node is registered when listen is called)
StartMeshServer_RegisterAtListen(n) ==
  /\ server' = [server EXCEPT ![n] = "binding"]
  /\ pc' = [pc EXCEPT ![n] = "started"]
  /\ regCalled' = [regCalled EXCEPT ![n] = TRUE]
  /\ directory' = directory \cup {Self(n)}

\* #startMeshServer: createServer, the handlers, listen(port, ip)
StartMeshServer(n) ==
  /\ server' = [server EXCEPT ![n] = "binding"]
  /\ pc' = [pc EXCEPT ![n] = "started"]
  /\ UNCHANGED <<directory, regCalled>>

\* #connectToMeshServers, one run of the loop up to an await: either the
\* loop reaches an entry http2.connect throws on (catch: unregister it,
\* await), or it reaches the end of the list and start() goes on to
\* #startMeshServer. The list has no order: any of the remaining entries
\* may come before the throwing one.
ConnectThrow(n) ==
  /\ pc[n] = "connecting"
  /\ \E x \in FilterItself(todo[n], n) : \E batch \in SUBSET FilterItself(todo[n], n) :
       /\ ConnectThrows(x)
       /\ \A e \in batch : ~ConnectThrows(e)
       /\ out' = [out EXCEPT ![n] =
                    [Attempt(out[n], batch) EXCEPT ![x] = [NoOut EXCEPT !.st = "threw"]]]
       /\ directory' = UnRegisterServer(directory, x, Undefined)
       /\ todo' = [todo EXCEPT ![n] = FilterItself(todo[n], n) \ (batch \cup {x})]
       /\ UNCHANGED wsVars
       /\ UNCHANGED h2Vars
       /\ ev' = [NoEv EXCEPT !.op = "connectThrow", !.node = n, !.e = x,
                             !.preDir = directory]
  /\ UNCHANGED <<pc, otherServers, server, regCalled, workers, shutLog>>
  /\ UNCHANGED inVars

ConnectRest(n) ==
  /\ pc[n] = "connecting"
  /\ \A e \in FilterItself(todo[n], n) : ~ConnectThrows(e)
  /\ out' = [out EXCEPT ![n] = Attempt(out[n], FilterItself(todo[n], n))]
  /\ todo' = [todo EXCEPT ![n] = {}]
  /\ otherServers' = [otherServers EXCEPT ![n] = {}]
  /\ StartMeshServer(n)
  /\ UNCHANGED wsVars
  /\ UNCHANGED h2Vars
  /\ ev' = [NoEv EXCEPT !.op = "connected", !.node = n, !.list = otherServers[n]]
  /\ UNCHANGED <<workers, shutLog>>
  /\ UNCHANGED inVars

\* The process ends (process.exit, or an uncaught exception): its server,
\* sessions, streams and registry are gone with it.
ProcessEnds(n, how) ==
  /\ pc' = [pc EXCEPT ![n] = how]
  /\ otherServers' = Gone(otherServers, n, {})
  /\ todo' = Gone(todo, n, {})
  /\ server' = Gone(server, n, "none")
  /\ regCalled' = Gone(regCalled, n, FALSE)
  /\ workers' = Gone(workers, n, "disconnected")
  /\ shutLog' = Gone(shutLog, n, << >>)
  /\ out' = Gone(out, n, [e \in Entry |-> NoOut])
  /\ sessions' = Gone(sessions, n, << >>)
  /\ streams' = Gone(streams, n, EmptyObj)
  /\ bySession' = Gone(bySession, n, EmptyObj)
  /\ byIPAndPort' = Gone(byIPAndPort, n, EmptyObj)

\* ------------------------------------------------------------------------
\* The listener
\* ------------------------------------------------------------------------
\* 'listening' -> #meshListeningHandler: register this node
MeshListeningHandler(n) ==
  /\ Alive(n)
  /\ server[n] = "binding"
  /\ server' = [server EXCEPT ![n] = "listening"]
  /\ regCalled' = [regCalled EXCEPT ![n] = TRUE]
  /\ directory' = RegisterServer(directory, MeshIp(n), ToString(MeshPort(n)))
  /\ UNCHANGED wsVars
  /\ UNCHANGED h2Vars
  /\ ev' = [NoEv EXCEPT !.op = "listening", !.node = n,
                        !.ip = MeshIp(n), !.port = ToString(MeshPort(n))]
  /\ UNCHANGED <<pc, otherServers, todo, out, workers, shutLog>>
  /\ UNCHANGED inVars

\* 'error' of the listener (the bind fails) -> #meshServerErrorHandler:
\* emit("error", err), which throws when the application listens to no
\* 'error' event of the Mesh.
MeshServerErrorHandler(n) ==
  /\ Alive(n)
  /\ server[n] = "binding"
  /\ \E handled \in BOOLEAN :
       IF handled
       THEN /\ server' = [server EXCEPT ![n] = "failed"]
            /\ UNCHANGED <<pc, otherServers, todo, out, regCalled, workers, shutLog>>
            /\ UNCHANGED inVars
       ELSE ProcessEnds(n, "crashed")
  /\ UNCHANGED wsVars
  /\ UNCHANGED h2Vars
  /\ ev' = [NoEv EXCEPT !.op = "serverError", !.node = n]
  /\ UNCHANGED directory

\* 'session' of the listener -> #meshSessionHandler. The client is a mesh
\* node whose outbound session reaches this listener (from \in Node) or any
\* other client (from = 0).
MeshSessionHandler(n, from, addr) ==
  /\ Alive(n)
  /\ server[n] = "listening"
  /\ Len(sessions[n]) < MaxSessions
  /\ IF from \in Node
     THEN /\ Alive(from)
          /\ NodeAt(Self(n)) = n
          /\ out[from][Self(n)].st = "connecting"
          /\ addr \in NodeAddr
          /\ out' = [out EXCEPT ![from][Self(n)].st = "requested"]
     ELSE /\ addr \in RemoteAddr
          /\ UNCHANGED out
  /\ sessions' = [sessions EXCEPT ![n] =
                    Append(@, [from |-> from, addr |-> addr, st |-> "open"])]
  /\ bySession' = [bySession EXCEPT ![n] =
                     Put(@, SessionDotId(Len(sessions[n]) + 1),
                         [session |-> Len(sessions[n]) + 1, streams |-> EmptyObj])]
  /\ UNCHANGED wsVars
  /\ UNCHANGED h2Vars
  /\ ev' = NoEv
  /\ UNCHANGED <<directory, streams, byIPAndPort>>
  /\ UNCHANGED nodeVars

\* ------------------------------------------------------------------------
\* The inbound handshake: #meshStreamHandler
\* ------------------------------------------------------------------------
\* (variant: `&&` between the two tests, both headers must be missing)
HeadersMissing_Both(ip, port) == ip = Undefined /\ port = Undefined

\* the condition of the first rejection
HeadersMissing(ip, port) == ip = Undefined \/ port = Undefined

\* (variant: `||` between the two includes, one loopback side is enough)
IdentityCheckPasses_Either(ip, addr) ==
  ~(ip # addr /\ ~(ip \in localhostVariants \/ addr \in localhostVariants))

\* the negation of the condition of the second rejection
IdentityCheckPasses(ip, addr) ==
  ~(ip # addr /\ ~(ip \in localhostVariants /\ addr \in localhostVariants))

\* (variant: the duplicate check is missing)
ExistingConnection_Never(byip, ip, port) == FALSE

ExistingConnection(byip, ip, port) == IpAndPort(ip, port) \in DOMAIN byip

\* The status the handler responds with.
HandshakeStatus(byip, ip, port, addr) ==
  IF HeadersMissing(ip, port) THEN 400
  ELSE IF ~IdentityCheckPasses(ip, addr) THEN 400
  ELSE IF ExistingConnection(byip, ip, port) THEN 404
  ELSE 200

\* stream.on("close", ...) of #processMeshStreamData, on the two indexes
CloseDeleteBySession(bys, sid, id) ==
  IF sid \in DOMAIN bys
  THEN [bys EXCEPT ![sid].streams = Delete(@, id)]
  ELSE bys

\* (variant: the close handler leaves byIPAndPort alone)
CloseDeleteByIPAndPort_Keep(byip, key) == byip

CloseDeleteByIPAndPort(byip, key) == Delete(byip, key)

\* A stream of session s arrives with its headers. A mesh node sends one
\* request per session, with its own identity in the headers.
MeshStreamHandler(n, s, ip, port) ==
  LET h == <<s, NextStreamId(n, s)>>
      from == sessions[n][s].from
      addr == sessions[n][s].addr
      status == HandshakeStatus(byIPAndPort[n], ip, port, addr)
      sid == SessionDotSessionId(s)
      event == [NoEv EXCEPT !.op = "handshake", !.node = n, !.hset = {h},
                            !.ip = ip, !.port = port, !.addr = addr,
                            !.pre = byIPAndPort[n], !.preS = bySession[n]]
  IN
  /\ Alive(n)
  /\ s \in DOMAIN sessions[n]
  /\ sessions[n][s].st # "closed"
  /\ Cardinality(StreamsOn(n, s)) < MaxStreams
  /\ IF from \in Node
     THEN /\ StreamsOn(n, s) = {}
          /\ out[from][Self(n)].st = "requested"
          /\ ip = MeshIp(from)
          /\ port = ToString(MeshPort(from))
     ELSE /\ ip \in HeaderIp
          /\ port \in HeaderPort
  /\ UNCHANGED wsVars
  /\ UNCHANGED h2Vars
  /\ ev' = event
  /\ IF status # 200
     THEN \* respond({":status": status}, {endStream: true}); return
          /\ streams' = [streams EXCEPT ![n] =
                           Put(@, h, [status |-> status, st |-> "ended", key |-> Undefined])]
          /\ UNCHANGED <<out, sessions, bySession, byIPAndPort>>
          /\ UNCHANGED nodeVars
     ELSE IF sid \notin DOMAIN bySession[n]
     THEN \* bySession[sessionId] is undefined: TypeError, uncaught
          /\ ProcessEnds(n, "crashed")
     ELSE /\ bySession' = [bySession EXCEPT ![n][sid].streams = Put(@, h[2], h)]
          /\ byIPAndPort' = [byIPAndPort EXCEPT ![n] = Put(@, IpAndPort(ip, port), h)]
          /\ streams' = [streams EXCEPT ![n] =
                           Put(@, h, [status |-> 200, st |-> "open",
                                      key |-> IpAndPort(ip, port)])]
          /\ UNCHANGED <<out, sessions>>
          /\ UNCHANGED nodeVars
  /\ UNCHANGED directory

\* ------------------------------------------------------------------------
\* Outbound sessions and streams: the handlers of #connectToMeshServers
\* ------------------------------------------------------------------------
\* session.on("error"): the peer is unreachable, unregister it.
SessionErrorHandler(n, e) ==
  /\ Alive(n)
  /\ out[n][e].st = "connecting"
  /\ out' = [out EXCEPT ![n][e].st = "error"]
  /\ directory' = UnRegisterServer(directory, e, Undefined)
  /\ UNCHANGED wsVars
  /\ UNCHANGED h2Vars
  /\ ev' = [NoEv EXCEPT !.op = "sessionError", !.node = n, !.e = e,
                        !.preDir = directory]
  /\ UNCHANGED nodeVars
  /\ UNCHANGED inVars

\* The inbound stream node n's request became on the peer's listener.
PeerStream(n, e) ==
  LET b == NodeAt(e) IN
  IF b = 0 THEN {}
  ELSE {h \in DOMAIN streams[b] : sessions[b][h[1]].from = n}

\* The record byIPAndPort gets for an outbound stream on its response.
ResponseRecord(byip, e, status) == byip

\* outboundStream.on("response"): #processMeshStreamData(stream, e, true),
\* then write("ping"); the status of the response is not looked at.
ResponseHandler(n, e) ==
  /\ Alive(n)
  /\ out[n][e].st = "requested"
  /\ \E h \in PeerStream(n, e) :
       /\ out' = [out EXCEPT ![n][e] =
                    [st |-> "responded", status |-> streams[NodeAt(e)][h].status,
                     attached |-> TRUE, pinged |-> TRUE]]
       /\ byIPAndPort' = [byIPAndPort EXCEPT ![n] =
                            ResponseRecord(@, e, streams[NodeAt(e)][h].status)]
  /\ UNCHANGED wsVars
  /\ UNCHANGED h2Vars
  /\ ev' = [NoEv EXCEPT !.op = "response", !.node = n, !.e = e]
  /\ UNCHANGED <<directory, sessions, streams, bySession>>
  /\ UNCHANGED nodeVars

\* 'close' of an outbound stream: the handler of #processMeshStreamData
\* runs when the response handler attached it.
OutStreamClose(n, e) ==
  /\ Alive(n)
  /\ out[n][e].st \in {"requested", "responded"}
  /\ out' = [out EXCEPT ![n][e].st = "closed"]
  /\ IF out[n][e].attached
     THEN /\ bySession' = [bySession EXCEPT ![n] =
                             CloseDeleteBySession(@, SessionDotSessionId(0), OutStreamId)]
          /\ byIPAndPort' = [byIPAndPort EXCEPT ![n] = CloseDeleteByIPAndPort(@, e)]
     ELSE UNCHANGED <<bySession, byIPAndPort>>
  /\ UNCHANGED wsVars
  /\ UNCHANGED h2Vars
  /\ ev' = [NoEv EXCEPT !.op = "outClose", !.node = n, !.e = e,
                        !.keys = IF out[n][e].attached THEN {e} ELSE {},
                        !.pre = byIPAndPort[n], !.preS = bySession[n]]
  /\ UNCHANGED <<directory, sessions, streams>>
  /\ UNCHANGED nodeVars

\* ------------------------------------------------------------------------
\* Inbound streams and sessions closing
\* ------------------------------------------------------------------------
RECURSIVE CloseAll(_, _, _, _)
\* The close handlers of the streams in hs, run one after the other on the
\* pair <<bySession, byIPAndPort>>.
CloseAll(n, hs, bys, byip) ==
  IF hs = {} THEN <<bys, byip>>
  ELSE LET h == CHOOSE x \in hs : TRUE
       IN CloseAll(n, hs \ {h},
                   CloseDeleteBySession(bys, SessionDotSessionId(h[1]), h[2]),
                   CloseDeleteByIPAndPort(byip, streams[n][h].key))

\* Inbound streams the handshake accepted and that have not closed.
LinkedIn(n) == {h \in DOMAIN streams[n] : streams[n][h].st \in {"open", "closing"}}

\* A closed stream: its handlers have run and are gone.
Closed(stream) == [status |-> stream.status, st |-> "closed", key |-> Undefined]

\* 'close' of an accepted inbound stream.
InStreamClose(n, h) ==
  /\ Alive(n)
  /\ h \in LinkedIn(n)
  /\ streams' = [streams EXCEPT ![n][h] = Closed(@)]
  /\ bySession' = [bySession EXCEPT ![n] = CloseAll(n, {h}, bySession[n], byIPAndPort[n])[1]]
  /\ byIPAndPort' = [byIPAndPort EXCEPT ![n] = CloseAll(n, {h}, bySession[n], byIPAndPort[n])[2]]
  /\ UNCHANGED wsVars
  /\ UNCHANGED h2Vars
  /\ ev' = [NoEv EXCEPT !.op = "inClose", !.node = n, !.hset = {h},
                        !.keys = {streams[n][h].key},
                        !.pre = byIPAndPort[n], !.preS = bySession[n]]
  /\ UNCHANGED <<directory, out, sessions>>
  /\ UNCHANGED nodeVars

\* An inbound session closes: its streams are destroyed and emit 'close',
\* then 'close' of the session -> #sessionCloseHandler, which does nothing.
SessionCloseHandler(n, s) ==
  LET hs == {h \in LinkedIn(n) : h[1] = s} IN
  /\ Alive(n)
  /\ s \in DOMAIN sessions[n]
  /\ sessions[n][s].st # "closed"
  /\ sessions' = [sessions EXCEPT ![n][s] = [from |-> @.from, addr |-> Undefined, st |-> "closed"]]
  /\ streams' = [streams EXCEPT ![n] =
                   [h \in DOMAIN @ |-> IF h \in hs THEN Closed(@[h]) ELSE @[h]]]
  /\ bySession' = [bySession EXCEPT ![n] = CloseAll(n, hs, bySession[n], byIPAndPort[n])[1]]
  /\ byIPAndPort' = [byIPAndPort EXCEPT ![n] = CloseAll(n, hs, bySession[n], byIPAndPort[n])[2]]
  /\ UNCHANGED wsVars
  /\ UNCHANGED h2Vars
  /\ ev' = [NoEv EXCEPT !.op = "sessionClose", !.node = n, !.hset = hs,
                        !.keys = {streams[n][h].key : h \in hs},
                        !.pre = byIPAndPort[n], !.preS = bySession[n]]
  /\ UNCHANGED <<directory, out>>
  /\ UNCHANGED nodeVars

\* ------------------------------------------------------------------------
\* Messages: from the workers, and from the peers
\* ------------------------------------------------------------------------
\* Identities a worker can name as the destination of a message: one a
\* client can be linked under and one no socket can show.
RelayIdentity == {IpAndPort("localhost", "9002"), IpAndPort("127.0.0.3", "9002")}

\* What a chunk arriving on a link can carry.
Payload == {"ping", "chat"}

\* The streams #workerMessageHandler writes the message to: its body is a
\* comment, it looks nothing up and writes to none.
WorkerMessageWrites(byip, identity) == {}

\* 'message' of the cluster -> #workerMessageHandler(worker, message, handle)
WorkerMessageHandler(n, identity) ==
  /\ pc[n] \in {"started", "sigint"}
  /\ workers[n] = "connected"
  /\ UNCHANGED wsVars
  /\ UNCHANGED h2Vars
  /\ ev' = [NoEv EXCEPT !.op = "workerMessage", !.node = n, !.e = identity,
                        !.pre = byIPAndPort[n],
                        !.sent = WorkerMessageWrites(byIPAndPort[n], identity)]
  /\ UNCHANGED <<directory, out>>
  /\ UNCHANGED nodeVars
  /\ UNCHANGED inVars

\* The message events and worker deliveries the data handler of
\* #processMeshStreamData produces for a chunk: its body is a comment.
DataHandlerEmits(data) == << >>

\* 'data' of an accepted inbound stream -> stream.on("data", (data) => {})
StreamDataHandler(n, h, data) ==
  /\ Alive(n)
  /\ h \in LinkedIn(n)
  /\ streams[n][h].st = "open"
  /\ UNCHANGED wsVars
  /\ UNCHANGED h2Vars
  /\ ev' = [NoEv EXCEPT !.op = "data", !.node = n, !.hset = {h}, !.data = data,
                        !.emitted = DataHandlerEmits(data)]
  /\ UNCHANGED <<directory, out>>
  /\ UNCHANGED nodeVars
  /\ UNCHANGED inVars

\* ------------------------------------------------------------------------
\* Shutdown: #sigIntHandler
\* ------------------------------------------------------------------------
\* SIGINT, up to the await: #unRegisterServerFn(meshIp, meshPort) is called.
SigInt(n) ==
  /\ pc[n] = "started"
  /\ pc' = [pc EXCEPT ![n] = "sigint"]
  /\ directory' = UnRegisterServer(directory, MeshIp(n), ToString(MeshPort(n)))
  /\ shutLog' = [shutLog EXCEPT ![n] = <<"unregister">>]
  /\ UNCHANGED wsVars
  /\ UNCHANGED h2Vars
  /\ ev' = NoEv
  /\ UNCHANGED <<otherServers, todo, out, server, regCalled, workers>>
  /\ UNCHANGED inVars

\* #closeAllConnections: end() and close() every stream of byIPAndPort,
\* close() every session of bySession.
ClosedStreams(n) == {byIPAndPort[n][k] : k \in DOMAIN byIPAndPort[n]}

ClosedSessions(n) == {bySession[n][k].session : k \in DOMAIN bySession[n]}

\* (variant: the timer is armed before the links are closed)
ShutdownSteps_TimerFirst == <<"disconnectWorkers", "armTimer", "closeListener", "closeLinks">>

\* The steps after the await, in the order the handler takes them.
ShutdownSteps == <<"disconnectWorkers", "closeListener", "closeLinks", "armTimer">>

\* The rest of the handler, once the unregister call has completed.
SigIntResume(n) ==
  /\ pc[n] = "sigint"
  /\ workers' = [workers EXCEPT ![n] = "disconnected"]
  /\ server' = [server EXCEPT ![n] = "closed"]
  /\ streams' = [streams EXCEPT ![n] =
                   [h \in DOMAIN @ |-> IF h \in ClosedStreams(n) /\ @[h].st = "open"
                                       THEN [@[h] EXCEPT !.st = "closing"] ELSE @[h]]]
  /\ sessions' = [sessions EXCEPT ![n] =
                    [s \in DOMAIN @ |-> IF s \in ClosedSessions(n) /\ @[s].st = "open"
                                        THEN [@[s] EXCEPT !.st = "closing"] ELSE @[s]]]
  /\ shutLog' = [shutLog EXCEPT ![n] = @ \o ShutdownSteps]
  /\ pc' = [pc EXCEPT ![n] = "exiting"]
  /\ UNCHANGED wsVars
  /\ UNCHANGED h2Vars
  /\ ev' = [NoEv EXCEPT !.op = "shutdown", !.node = n,
                        !.pre = byIPAndPort[n], !.preS = bySession[n]]
  /\ UNCHANGED <<directory, otherServers, todo, out, regCalled, bySession, byIPAndPort>>

\* The timer fires after 10 seconds: process.exit(0).
ExitTimer(n) ==
  /\ pc[n] = "exiting"
  /\ ProcessEnds(n, "exited")
  /\ UNCHANGED wsVars
  /\ UNCHANGED h2Vars
  /\ ev' = NoEv
  /\ UNCHANGED directory

\* The promise of `await this.#unRegisterServerFn(meshIp, meshPort)` is
\* rejected (the registry is down, or the configuration gave no
\* unRegisterServerFn: the constructor asks only for the other two). The
\* async handler ends there with an unhandled rejection, which either
\* brings the process down or only warns, as the runtime is set up.
UnRegisterServerFnRejects(n) ==
  /\ pc[n] = "sigint"
  /\ \E fatal \in BOOLEAN :
       IF fatal
       THEN ProcessEnds(n, "crashed")
       ELSE /\ pc' = [pc EXCEPT ![n] = "started"]
            /\ shutLog' = [shutLog EXCEPT ![n] = << >>]
            /\ UNCHANGED <<otherServers, todo, out, server, regCalled, workers>>
            /\ UNCHANGED inVars
  /\ UNCHANGED wsVars
  /\ UNCHANGED h2Vars
  /\ ev' = [NoEv EXCEPT !.op = "unRegisterRejects", !.node = n]
  /\ UNCHANGED directory

\* 'close' of the listener, emitted once it was closed and its connections
\* have ended -> #meshCloseHandler: cluster.disconnect(() => process.exit(0)).
\* The callback runs when the workers have disconnected.
MeshCloseHandler(n) ==
  /\ Alive(n)
  /\ server[n] = "closed"
  /\ \A s \in DOMAIN sessions[n] : sessions[n][s].st = "closed"
  /\ ProcessEnds(n, "exited")
  /\ UNCHANGED wsVars
  /\ UNCHANGED h2Vars
  /\ ev' = NoEv
  /\ UNCHANGED directory

\* ------------------------------------------------------------------------
\* The WebSocket channel: WsH2Stream (src/streams/ws-h2stream.mjs)
\* ------------------------------------------------------------------------
\* WsH2Stream.#WS_CONSTANTS
CONTINUATION == 0

TEXT == 1

BINARY == 2

CLOSE == 8

PING == 9

PONG == 10

FINAL == 128

\* A buffer is a sequence of bytes; JavaScript counts its indexes from 0.
\* buf[i] under a bit mask: reading past the end gives undefined, and
\* undefined & mask is 0.
ByteAt(buf, i) == IF i < Len(buf) THEN buf[i + 1] ELSE 0

\* buf.slice(from, to) and buf.slice(from)
Slice(buf, from, to) == SubSeq(buf, from + 1, IF to < Len(buf) THEN to ELSE Len(buf))

SliceFrom(buf, from) == SubSeq(buf, from + 1, Len(buf))

\* A number, a BigInt (its eight bytes, lowest first) or undefined.
Number(n) == [type |-> "number", value |-> n, digits |-> << >>]

BigInt(digits) == [type |-> "bigint", value |-> 0, digits |-> digits]

NoValue == [type |-> "undefined", value |-> 0, digits |-> << >>]

\* new Uint16Array(new Uint8Array(fastFragment.slice(2, 4)))[0]: a typed
\* array built from a typed array copies element by element, so this is the
\* first of the two bytes.
ExtendedLength16(buf) ==
  IF Slice(buf, 2, 4) = << >> THEN NoValue ELSE Number(Slice(buf, 2, 4)[1])

\* new BigUint64Array(new Uint8Array(fastFragment.slice(2, 10)).buffer)[0]:
\* the eight bytes in the byte order of the platform (little-endian), as a
\* BigInt; a RangeError when the slice is not a whole number of elements.
ExtendedLength64Throws(buf) == Len(Slice(buf, 2, 10)) % 8 # 0

ExtendedLength64(buf) ==
  IF Slice(buf, 2, 10) = << >> THEN NoValue ELSE BigInt(Slice(buf, 2, 10))

\* The offset of the masking key, or of the payload when there is none.
LengthEnd(buf) ==
  CASE ByteAt(buf, 1) % 128 = 126 -> 4
    [] ByteAt(buf, 1) % 128 = 127 -> 10
    [] OTHER -> 2

\* What #fragmentInterpreter returns for a chunk of zero length.
UndefinedFragment == [kind |-> "undefined"]

ThrownFragment == [kind |-> "throw"]

\* static #fragmentInterpreter(fragment)
FragmentInterpreter(fragment) ==
  LET len7 == ByteAt(fragment, 1) % 128
      usesMasking == ByteAt(fragment, 1) >= 128
      offset == LengthEnd(fragment)
  IN
  IF Len(fragment) = 0 THEN UndefinedFragment
  ELSE IF len7 = 127 /\ ExtendedLength64Throws(fragment) THEN ThrownFragment
  ELSE [kind |-> "fragment",
        isFinal |-> (fragment[1] \div 128) * 128,
        rsv1 |-> ((fragment[1] \div 64) % 2) * 64,
        rsv2 |-> ((fragment[1] \div 32) % 2) * 32,
        rsv3 |-> ((fragment[1] \div 16) % 2) * 16,
        opcode |-> fragment[1] % 16,
        payloadLength |-> CASE len7 = 126 -> ExtendedLength16(fragment)
                            [] len7 = 127 -> ExtendedLength64(fragment)
                            [] OTHER -> Number(len7),
        usesMasking |-> usesMasking,
        maskingKey |-> IF usesMasking THEN Slice(fragment, offset, offset + 4) ELSE << >>,
        payload |-> SliceFrom(fragment, IF usesMasking THEN offset + 4 ELSE offset)]

\* WsH2Stream.OPCODES, which #sendFrame reads for the control frames: the
\* class has the private static #WS_CONSTANTS only, so this is undefined
\* and `WsH2Stream.OPCODES.PONG` is a TypeError.
PublicOPCODES == Undefined

\* The value of `FIRST_BYTE.FINAL | WsH2Stream.OPCODES.<name>`
ControlFirstByteThrows == PublicOPCODES = Undefined

\* payloadLengthBytes. Buffer.from(array) keeps the low byte of every entry:
\* spreading the one-element Uint16Array gives one entry. Above 65535 the
\* entry is a BigInt, stored as << >> here, and Buffer.from throws on it.
PayloadLengthBytes(payloadLength) ==
  IF payloadLength < 126 THEN <<payloadLength>>
  ELSE IF payloadLength < 65536 THEN <<126, payloadLength % 256>>
  ELSE << >>

PayloadLengthBytesThrows(payloadLength) == PayloadLengthBytes(payloadLength) = << >>

\* #sendFrame(options): whether it throws, and the buffers it writes.
SendFrame(opcode, payload) ==
  IF opcode \in {CLOSE, PING, PONG}
  THEN IF ControlFirstByteThrows
       THEN [threw |-> TRUE, writes |-> << >>]
       ELSE [threw |-> FALSE, writes |-> << <<FINAL + opcode, 0>> >>]
  ELSE IF opcode \in {TEXT, BINARY}
  THEN IF PayloadLengthBytesThrows(Len(payload))
       THEN [threw |-> TRUE, writes |-> << >>]
       ELSE [threw |-> FALSE,
             writes |-> << <<FINAL + opcode>> \o PayloadLengthBytes(Len(payload)) \o payload >>]
  ELSE [threw |-> FALSE, writes |-> << >>]

RECURSIVE Xor(_, _)
\* a ^ b on bytes
Xor(a, b) ==
  IF a = 0 /\ b = 0 THEN 0
  ELSE (((a % 2) + (b % 2)) % 2) + 2 * Xor(a \div 2, b \div 2)

\* (variant: the key is indexed with the byte index itself, key[index])
Unmask_KeyNotWrapped(fragment) ==
  IF fragment.usesMasking
  THEN [i \in 1..Len(fragment.payload) |->
          IF i <= Len(fragment.maskingKey)
          THEN Xor(fragment.payload[i], fragment.maskingKey[i])
          ELSE fragment.payload[i]]
  ELSE fragment.payload

\* fragment.usesMasking ? payload.map((byte, index) => byte ^ key[index % 4])
\*                      : payload        (byte ^ undefined is byte)
Unmask(fragment) ==
  IF fragment.usesMasking
  THEN [i \in 1..Len(fragment.payload) |->
          IF ((i - 1) % 4) + 1 <= Len(fragment.maskingKey)
          THEN Xor(fragment.payload[i], fragment.maskingKey[((i - 1) % 4) + 1])
          ELSE fragment.payload[i]]
  ELSE fragment.payload

RECURSIVE ConcatTypedArrays(_)
\* concatTypedArrays(arrays): one new array, the arrays one after the other
ConcatTypedArrays(arrays) ==
  IF arrays = << >> THEN << >>
  ELSE Head(arrays) \o ConcatTypedArrays(Tail(arrays))

RECURSIVE Utf8Decode(_)
\* buffer.toString("utf8"), for bytes below 0xE0: the code points of the
\* one- and two-byte sequences, U+FFFD for a byte that starts or continues
\* none.
Utf8Decode(bytes) ==
  IF bytes = << >> THEN << >>
  ELSE IF bytes[1] < 128 THEN <<bytes[1]>> \o Utf8Decode(Tail(bytes))
  ELSE IF /\ bytes[1] >= 194
          /\ bytes[1] <= 223
          /\ Len(bytes) >= 2
          /\ bytes[2] >= 128
          /\ bytes[2] <= 191
  THEN <<(bytes[1] - 192) * 64 + (bytes[2] - 128)>> \o Utf8Decode(Tail(Tail(bytes)))
  ELSE <<65533>> \o Utf8Decode(Tail(bytes))

\* A string, as its code points, and a typed array, as its bytes.
String(chars) == [string |-> TRUE, data |-> chars]

Bytes(bytes) == [string |-> FALSE, data |-> bytes]

\* (variant: every fragment is decoded on its own and the texts are joined)
FramePayload_DecodePerFragment(fragments) ==
  IF fragments[1].opcode = TEXT
  THEN String(ConcatTypedArrays([i \in 1..Len(fragments) |-> Utf8Decode(Unmask(fragments[i]))]))
  ELSE Bytes(ConcatTypedArrays([i \in 1..Len(fragments) |-> Unmask(fragments[i])]))

\* frameDetails.payload
FramePayload(fragments) ==
  IF fragments[1].opcode = TEXT
  THEN String(Utf8Decode(ConcatTypedArrays([i \in 1..Len(fragments) |-> Unmask(fragments[i])])))
  ELSE Bytes(ConcatTypedArrays([i \in 1..Len(fragments) |-> Unmask(fragments[i])]))

\* frameDetails, the argument of the 'frame' event
FrameDetails(fragments) ==
  [name |-> "frame",
   opcode |-> fragments[1].opcode,
   type |-> IF fragments[1].opcode = TEXT THEN "text"
            ELSE IF fragments[1].opcode = BINARY THEN "binary" ELSE "unknown",
   payload |-> FramePayload(fragments)]

PongEvent(fragment) ==
  [name |-> "pong", opcode |-> PONG, type |-> "pong", payload |-> Bytes(fragment.payload)]

\* The outcome of a handler: the accumulator it leaves, the buffers it
\* writes, the events it emits, whether it ends the stream, whether it
\* throws.
Outcome(fragments, writes, emits, end, threw) ==
  [fragments |-> fragments, writes |-> writes, emits |-> emits, end |-> end, threw |-> threw]

Pop(fragments) == SubSeq(fragments, 1, Len(fragments) - 1)

\* #parseFrame, the branch of a final control fragment (opcode >= 8)
ParseControl(fragments) ==
  LET last == fragments[Len(fragments)] IN
  CASE last.opcode = CLOSE -> Outcome(Pop(fragments), << >>, << >>, TRUE, FALSE)
    [] last.opcode = PING ->
         IF SendFrame(PONG, << >>).threw
         THEN Outcome(fragments, << >>, << >>, FALSE, TRUE)
         ELSE Outcome(Pop(fragments), SendFrame(PONG, << >>).writes, << >>, FALSE, FALSE)
    [] last.opcode = PONG -> Outcome(Pop(fragments), << >>, <<PongEvent(last)>>, FALSE, FALSE)
    [] OTHER -> Outcome(Pop(fragments), << >>, << >>, TRUE, FALSE)

\* (variant: the final bit of the last fragment is not looked at)
ParseFrame_NoWait(fragments) ==
  LET last == fragments[Len(fragments)] IN
  IF last.kind = "undefined" THEN Outcome(fragments, << >>, << >>, FALSE, TRUE)
  ELSE IF last.opcode >= 8 THEN ParseControl(fragments)
  ELSE IF \E i \in 1..Len(fragments) : fragments[i].kind = "undefined"
  THEN Outcome(fragments, << >>, << >>, FALSE, TRUE)
  ELSE Outcome(<< >>, << >>, <<FrameDetails(fragments)>>, FALSE, FALSE)

\* #parseFrame(), on the accumulator the data listener has pushed to.
\* Reading a property of an undefined entry is a TypeError.
ParseFrame(fragments) ==
  LET last == fragments[Len(fragments)] IN
  IF last.kind = "undefined" THEN Outcome(fragments, << >>, << >>, FALSE, TRUE)
  ELSE IF last.isFinal = 0 THEN Outcome(fragments, << >>, << >>, FALSE, FALSE)
  ELSE IF last.opcode >= 8 THEN ParseControl(fragments)
  ELSE IF \E i \in 1..Len(fragments) : fragments[i].kind = "undefined"
  THEN Outcome(fragments, << >>, << >>, FALSE, TRUE)
  ELSE Outcome(<< >>, << >>, <<FrameDetails(fragments)>>, FALSE, FALSE)

\* What the handlers and methods of the channel do to it. A write on a
\* stream that has been ended is not sent: the stream reports it with
\* 'error', which #errorListener re-emits.
ErrorEvent == [name |-> "error", opcode |-> 0, type |-> "error", payload |-> Bytes(<< >>)]

ChannelStep(r, op, arg, frag) ==
  /\ wsSteps < MaxWsSteps
  /\ currentFrameFragments' = r.fragments
  /\ wsWritten' = IF wsStreamEnded THEN wsWritten ELSE wsWritten \o r.writes
  /\ wsEmitted' = wsEmitted \o r.emits \o
                    (IF wsStreamEnded /\ r.writes # << >> THEN <<ErrorEvent>> ELSE << >>)
  /\ wsStreamEnded' = (wsStreamEnded \/ r.end)
  /\ wsSteps' = wsSteps + 1
  /\ ev' = [NoEv EXCEPT !.op = op, !.chunk = arg, !.frag = frag, !.threw = r.threw,
                        !.preFrags = currentFrameFragments, !.preW = Len(wsWritten),
                        !.preE = Len(wsEmitted), !.preEnded = wsStreamEnded]
  /\ UNCHANGED meshVars
  /\ UNCHANGED h2Vars

\* #dataListener(fragment): interpret the chunk, push it, #parseFrame()
DataListener(fragment) ==
  LET parsedFragment == FragmentInterpreter(fragment) IN
  ChannelStep(IF parsedFragment.kind = "throw"
              THEN Outcome(currentFrameFragments, << >>, << >>, FALSE, TRUE)
              ELSE ParseFrame(Append(currentFrameFragments, parsedFragment)),
              "data", fragment, parsedFragment)

\* The outcome of a method that sends one frame.
Sent(sendFrame) == Outcome(currentFrameFragments, sendFrame.writes, << >>, FALSE, sendFrame.threw)

Threw == Outcome(currentFrameFragments, << >>, << >>, FALSE, TRUE)

\* sendText(data), data given as the bytes Buffer.from(data) has
SendText(data) == ChannelStep(Sent(SendFrame(TEXT, data)), "sendText", data, [kind |-> "none"])

\* The kinds of value sendBinary is called with.
DataKind == {"Buffer", "Uint8Array"}

\* if(!data instanceof FastBuffer || data instanceof Buffer
\*      || data instanceof Uint8Array.prototype) throw new TypeError(...)
\* `!data instanceof FastBuffer` is `false instanceof FastBuffer`; a Buffer
\* makes the second operand true; for anything else the third is evaluated
\* and is itself a TypeError, its right-hand side not being callable.
SendBinaryThrows(kind) ==
  IF kind = "Buffer" THEN TRUE ELSE TRUE

\* sendBinary(data)
SendBinary(kind, data) ==
  ChannelStep(IF SendBinaryThrows(kind) THEN Threw ELSE Sent(SendFrame(BINARY, data)),
              "sendBinary", data, [kind |-> "none"])

\* ping(): #sendFrame({opcode: OPCODES.PONG})
Ping == ChannelStep(Sent(SendFrame(PONG, << >>)), "ping", << >>, [kind |-> "none"])

\* pong(): #sendFrame({opcode: OPCODES.PONG})
Pong == ChannelStep(Sent(SendFrame(PONG, << >>)), "pong", << >>, [kind |-> "none"])

\* close(): the class defines no such method and EventEmitter has none, so
\* the call is a TypeError.
Close == ChannelStep(Threw, "close", << >>, [kind |-> "none"])

\* The chunks a peer sends, one fragment each: the first byte, the length
\* byte with the mask bit, the key, the payload as it is on the wire.
WireFragment(final, opcode, key, payload) ==
  <<final * FINAL + opcode, (IF key = << >> THEN 0 ELSE FINAL) + Len(payload)>>
    \o key
    \o [i \in 1..Len(payload) |->
          IF key = << >> THEN payload[i] ELSE Xor(payload[i], key[((i - 1) % 4) + 1])]

\* Payloads of inbound fragments: nothing, and the two bytes of U+00E9.
FragmentPayload == {<< >>, <<195>>, <<169>>}

MaskingKey == <<55, 250, 33, 61>>

\* Data fragments plain and masked, control fragments, final or not, and a
\* chunk of no bytes.
Chunk ==
  {WireFragment(final, opcode, << >>, payload) :
     final \in {0, 1}, opcode \in {CONTINUATION, TEXT, BINARY}, payload \in FragmentPayload}
  \cup {WireFragment(final, opcode, MaskingKey, payload) :
     final \in {0, 1}, opcode \in {CONTINUATION, TEXT, BINARY},
     payload \in FragmentPayload \ {<< >>}}
  \cup {WireFragment(final, opcode, << >>, << >>) :
     final \in {0, 1}, opcode \in {CLOSE, PING, PONG}}
  \cup {<< >>}

\* What the application sends.
SendData == {<< >>, <<97>>}

\* ------------------------------------------------------------------------
\* The WebSocket handshake: WsH2Stream.#handshake
\* ------------------------------------------------------------------------
\* A string is the sequence of its characters. The position of the first
\* comma of a string (0: none).
FirstComma(s) ==
  IF \E i \in 1..Len(s) : s[i] = ","
  THEN CHOOSE i \in 1..Len(s) : s[i] = "," /\ \A j \in 1..(i - 1) : s[j] # ","
  ELSE 0

RECURSIVE Split(_)
\* header.split(","): the pieces between the commas, as they are
Split(s) ==
  IF FirstComma(s) = 0 THEN <<s>>
  ELSE <<SubSeq(s, 1, FirstComma(s) - 1)>> \o Split(SubSeq(s, FirstComma(s) + 1, Len(s)))

RECURSIVE Join(_)
\* matchedProtocols.join(",")
Join(list) ==
  IF list = << >> THEN << >>
  ELSE IF Len(list) = 1 THEN list[1]
  ELSE list[1] \o <<",">> \o Join(Tail(list))

RECURSIVE Filter(_, _)
\* requested.filter(protocol => acceptedProtocols.includes(protocol))
Filter(list, accepted) ==
  IF list = << >> THEN << >>
  ELSE (IF \E i \in 1..Len(accepted) : accepted[i] = Head(list)
        THEN <<Head(list)>> ELSE << >>) \o Filter(Tail(list), accepted)

\* A header the request does not carry.
NoHeader == [present |-> FALSE, value |-> << >>]

Header(value) == [present |-> TRUE, value |-> value]

\* #requestedWsProtocols: null unless the header is there and not empty
RequestedWsProtocols(header) ==
  IF header.present /\ header.value # << >> THEN Split(header.value) ELSE << >>

\* responseHeaders[HTTP2_HEADER_WS_PROTO], set when something matched
ResponseWsProto(header, accepted) ==
  IF Filter(RequestedWsProtocols(header), accepted) # << >>
  THEN Header(Join(Filter(RequestedWsProtocols(header), accepted)))
  ELSE NoHeader

\* The constructor's #handshake(): #stream.respond(responseHeaders)
Handshake(header, accepted) ==
  /\ ev.op = "none"
  /\ wsSteps = 0
  /\ ev' = [NoEv EXCEPT !.op = "wsHandshake", !.status = 200, !.request = header,
                        !.accepted = accepted,
                        !.response = ResponseWsProto(header, accepted)]
  /\ UNCHANGED meshVars
  /\ UNCHANGED wsVars
  /\ UNCHANGED h2Vars

\* The characters of the headers of the model, the request headers built
\* from them, and the lists of accepted protocols.
HeaderChar == {"a", "b", ",", " "}

MaxHeaderLen == 3

HeaderValue == UNION {[1..n -> HeaderChar] : n \in 0..MaxHeaderLen}

AcceptedProtocols == {<< >>, << <<"a">> >>, << <<"b">> >>, << <<"b">>, <<"a">> >>}

\* ------------------------------------------------------------------------
\* The registration fails, a worker disconnects
\* ------------------------------------------------------------------------
\* 'listening' -> #meshListeningHandler when the registry is down: the
\* promise of #registerServerFn(meshIp, meshPort) is rejected, its catch
\* callback is to run.
RegisterServerFnRejects(n) ==
  /\ pc[n] = "started"
  /\ server[n] = "binding"
  /\ server' = [server EXCEPT ![n] = "listening"]
  /\ regCalled' = [regCalled EXCEPT ![n] = TRUE]
  /\ pc' = [pc EXCEPT ![n] = "registering"]
  /\ UNCHANGED wsVars
  /\ UNCHANGED h2Vars
  /\ ev' = [NoEv EXCEPT !.op = "registerRejects", !.node = n]
  /\ UNCHANGED <<directory, otherServers, todo, out, workers, shutLog>>
  /\ UNCHANGED inVars

\* (variant: the callback logs the error and returns)
RegisterCatch_LogOnly(n) ==
  /\ pc[n] = "registering"
  /\ pc' = [pc EXCEPT ![n] = "started"]
  /\ UNCHANGED wsVars
  /\ UNCHANGED h2Vars
  /\ ev' = [NoEv EXCEPT !.op = "registerCatch", !.node = n]
  /\ UNCHANGED <<directory, otherServers, todo, out, server, regCalled, workers, shutLog>>
  /\ UNCHANGED inVars

\* .catch((err) => { logger.error(...); process.exit(1) })
RegisterCatch(n) ==
  /\ pc[n] = "registering"
  /\ ProcessEnds(n, "exit1")
  /\ UNCHANGED wsVars
  /\ UNCHANGED h2Vars
  /\ ev' = [NoEv EXCEPT !.op = "registerCatch", !.node = n]
  /\ UNCHANGED directory

\* cluster.worker in the coordinating process: only a worker process has it.
ClusterDotWorker == Undefined

\* 'disconnect' of the cluster -> #workerDisconnectHandler, which takes no
\* argument and reads cluster.worker.id: a TypeError when cluster.worker is
\* undefined, thrown out of the listener and uncaught.
WorkerDisconnectHandler(n) ==
  /\ pc[n] \in {"started", "sigint"}
  /\ workers[n] = "connected"
  /\ IF ClusterDotWorker = Undefined
     THEN /\ ProcessEnds(n, "crashed")
          /\ ev' = [NoEv EXCEPT !.op = "workerDisconnect", !.node = n]
     ELSE /\ workers' = [workers EXCEPT ![n] = "disconnected"]
          /\ ev' = [NoEv EXCEPT !.op = "workerDisconnect", !.node = n,
                                !.emitted = <<[event |-> "workerDisconnect",
                                               id |-> ClusterDotWorker.id]>>]
          /\ UNCHANGED <<pc, otherServers, todo, out, server, regCalled, shutLog>>
          /\ UNCHANGED inVars
  /\ UNCHANGED wsVars
  /\ UNCHANGED h2Vars
  /\ UNCHANGED directory

\* ------------------------------------------------------------------------
\* Chunks with an extended length, longer payloads and other opcodes
\* ------------------------------------------------------------------------
\* A chunk whose length field is len7 followed by the bytes of an extended
\* length.
LongFragment(first, len7, lengthBytes, key, payload) ==
  <<first, (IF key = << >> THEN 0 ELSE FINAL) + len7>> \o lengthBytes \o key \o payload

\* Binary fragments with a 16-bit and a 64-bit length, plain and masked, one
\* cut short inside its length; data fragments with a payload longer than
\* the masking key; fragments with the opcodes 3 and 11, which no frame
\* type has.
CodecChunk ==
  {LongFragment(FINAL + BINARY, 126, l, key, <<97>>) :
     l \in {<<0, 126>>, <<1, 0>>, <<255, 255>>}, key \in {<< >>, MaskingKey}}
  \cup {LongFragment(FINAL + BINARY, 127, l, key, <<97>>) :
     l \in {<<0, 0, 0, 0, 0, 1, 0, 0>>, <<1, 0, 0, 0, 0, 0, 0, 1>>}, key \in {<< >>, MaskingKey}}
  \cup {LongFragment(FINAL + BINARY, 127, <<0, 0, 1>>, << >>, << >>)}
  \cup {WireFragment(final, opcode, key, <<1, 2, 3, 4, 5>>) :
     final \in {0, 1}, opcode \in {CONTINUATION, BINARY}, key \in {<< >>, MaskingKey}}
  \cup {WireFragment(final, opcode, << >>, << >>) : final \in {0, 1}, opcode \in {3, 11}}

\* ------------------------------------------------------------------------
\* H2Session and H2Stream: the streams of a session and their responses
\* ------------------------------------------------------------------------
MaxH2Streams == 2

MaxH2Calls == 4

\* The :method and :protocol headers of a request.
Method == {"GET", "CONNECT"}

Protocol == {"websocket", "webtransport", "other", Undefined}

\* H2Stream.categorise(stream, incomingHeaders, options): the object it
\* returns ("none": it returns undefined) and the calls it makes on the
\* stream. new WsH2Stream(...) responds in its #handshake; the two refusals
\* respond with 501 and endStream, then close the stream as refused.
Categorise(method, protocol) ==
  IF method = "CONNECT"
  THEN CASE protocol = "websocket" -> [category |-> "WsH2Stream", calls |-> <<"respond">>]
         [] protocol = "webtransport" -> [category |-> "none", calls |-> <<"respond", "close">>]
         [] OTHER -> [category |-> "none", calls |-> <<"respond", "close">>]
  ELSE [category |-> "H2Stream", calls |-> << >>]

\* The branch `if(!h2Stream)` of #streamListener: stream.respond({":status":
\* 501}), which throws on a stream that has been closed, so that the
\* stream.close(NGHTTP2_REFUSED_STREAM) after it is not reached.
StreamNotHandled(calls) == calls \o <<"respond">>

\* What an action of the session or of one of its streams leaves unchanged.
H2Step(op, threw) ==
  /\ ev' = [NoEv EXCEPT !.op = op, !.threw = threw]
  /\ UNCHANGED meshVars
  /\ UNCHANGED wsVars

\* 'stream' of the session -> H2Session.#streamListener(stream, headers)
StreamListener(method, protocol) ==
  LET h2Stream == Categorise(method, protocol) IN
  /\ Len(h2Streams) < MaxH2Streams
  /\ h2Streams' = Append(h2Streams,
       [category |-> h2Stream.category,
        calls |-> IF h2Stream.category = "none"
                  THEN StreamNotHandled(h2Stream.calls) ELSE h2Stream.calls,
        sentHeaders |-> FALSE,
        closed |-> FALSE])
  /\ H2Step("stream", h2Stream.category = "none")

\* H2Stream.respond(headers, responseOptions) on the i-th stream
H2StreamRespond(i, endStream) ==
  /\ h2Streams[i].category = "H2Stream"
  /\ Len(h2Streams[i].calls) < MaxH2Calls
  /\ h2Streams' = [h2Streams EXCEPT ![i] =
       IF @.sentHeaders THEN @
       ELSE [@ EXCEPT !.sentHeaders = TRUE,
                      !.calls = @ \o <<"respond">> \o (IF endStream THEN <<"end">> ELSE << >>),
                      !.closed = (@ \/ endStream)]]
  /\ H2Step("respond", FALSE)

\* H2Stream.sendData(data)
H2StreamSendData(i) ==
  /\ h2Streams[i].category = "H2Stream"
  /\ Len(h2Streams[i].calls) < MaxH2Calls
  /\ h2Streams' = [h2Streams EXCEPT ![i] =
       IF @.sentHeaders THEN [@ EXCEPT !.calls = @ \o <<"write">>] ELSE @]
  /\ H2Step("sendData", ~h2Streams[i].sentHeaders)

\* H2Stream.end(endStatus)
H2StreamEnd(i) ==
  /\ h2Streams[i].category = "H2Stream"
  /\ Len(h2Streams[i].calls) < MaxH2Calls
  /\ h2Streams' = [h2Streams EXCEPT ![i] = [@ EXCEPT !.calls = @ \o <<"end">>, !.closed = TRUE]]
  /\ H2Step("end", FALSE)

\* ------------------------------------------------------------------------
\* The specifications
\* ------------------------------------------------------------------------
\* The coordinating process of node n.
Process(n) ==
  \/ Start(n)
  \/ ConnectThrow(n)
  \/ ConnectRest(n)
  \/ MeshListeningHandler(n)
  \/ MeshServerErrorHandler(n)
  \/ SigInt(n)
  \/ SigIntResume(n)
  \/ ExitTimer(n)
  \/ MeshCloseHandler(n)

\* The session and the request of a mesh node arriving at n's listener.
NodeSession(n) == \E from \in Node : \E addr \in NodeAddr : MeshSessionHandler(n, from, addr)

NodeStream(n) ==
  \E s \in DOMAIN sessions[n] :
    /\ sessions[n][s].from \in Node
    /\ MeshStreamHandler(n, s, MeshIp(sessions[n][s].from),
                         ToString(MeshPort(sessions[n][s].from)))

\* The session and the requests of any other client arriving at n's listener.
ClientSession(n) == \E addr \in RemoteAddr : MeshSessionHandler(n, 0, addr)

ClientStream(n) ==
  \E s \in DOMAIN sessions[n] : \E ip \in HeaderIp : \E port \in HeaderPort :
    /\ sessions[n][s].from = 0
    /\ MeshStreamHandler(n, s, ip, port)

\* What the transport of node n delivers to its handlers.
Transport(n) ==
  \/ \E e \in Entry : SessionErrorHandler(n, e)
  \/ \E e \in Entry : ResponseHandler(n, e)
  \/ \E e \in Entry : OutStreamClose(n, e)
  \/ \E h \in DOMAIN streams[n] : InStreamClose(n, h)
  \/ \E s \in DOMAIN sessions[n] : SessionCloseHandler(n, s)

\* The mesh: every node runs, the nodes connect to each other.
Next ==
  \E n \in Node :
    \/ Process(n)
    \/ NodeSession(n)
    \/ NodeStream(n)
    \/ Transport(n)

Spec == Init /\ [][Next]_vars

\* One listener and its clients: the node starts, every other peer of the
\* directory is down, and clients of any kind reach the node's listener.
TheNode == CHOOSE n \in Node : \A m \in Node : n <= m

NextListener ==
  \/ Start(TheNode)
  \/ ConnectThrow(TheNode)
  \/ ConnectRest(TheNode)
  \/ MeshListeningHandler(TheNode)
  \/ ClientSession(TheNode)
  \/ ClientStream(TheNode)
  \/ \E h \in DOMAIN streams[TheNode] : InStreamClose(TheNode, h)
  \/ \E s \in DOMAIN sessions[TheNode] : SessionCloseHandler(TheNode, s)

SpecListener == Init /\ [][NextListener]_vars

\* One node from its start to its exit, with a registry whose calls can
\* fail: the node starts, clients reach its listener, the shutdown signal
\* arrives.
NextShutdown ==
  \/ Start(TheNode)
  \/ ConnectRest(TheNode)
  \/ MeshListeningHandler(TheNode)
  \/ ClientSession(TheNode)
  \/ ClientStream(TheNode)
  \/ \E h \in DOMAIN streams[TheNode] : InStreamClose(TheNode, h)
  \/ \E s \in DOMAIN sessions[TheNode] : SessionCloseHandler(TheNode, s)
  \/ SigInt(TheNode)
  \/ SigIntResume(TheNode)
  \/ UnRegisterServerFnRejects(TheNode)
  \/ ExitTimer(TheNode)
  \/ MeshCloseHandler(TheNode)

\* The call to the registry settles, and an armed timer fires.
SpecShutdown ==
  /\ Init
  /\ [][NextShutdown]_vars
  /\ WF_vars(SigIntResume(TheNode) \/ UnRegisterServerFnRejects(TheNode))
  /\ WF_vars(ExitTimer(TheNode))

\* One listener, its clients, and the messages of its workers and of the
\* linked peers.
NextRelay ==
  \/ NextListener
  \/ \E identity \in RelayIdentity : WorkerMessageHandler(TheNode, identity)
  \/ \E h \in DOMAIN streams[TheNode] : \E data \in Payload :
       StreamDataHandler(TheNode, h, data)

SpecRelay == Init /\ [][NextRelay]_vars

\* One channel: the chunks its stream delivers and the methods the
\* application calls on it.
InitWs == Init /\ directory = {}

NextWs ==
  \/ \E fragment \in Chunk : DataListener(fragment)
  \/ \E data \in SendData : SendText(data)
  \/ \E kind \in DataKind : \E data \in SendData : SendBinary(kind, data)
  \/ Ping
  \/ Pong
  \/ Close

SpecWs == InitWs /\ [][NextWs]_vars

\* The frame codec on its own: a payload is sent on a new channel and the
\* buffer written is given to #fragmentInterpreter.
RoundTripLength == {0, 1, 125, 126, 127, 65535, 65536}

FillPayload(n, k) == [i \in 1..n |-> (i * k) % 256]

RoundTripPayload == {FillPayload(n, k) : n \in RoundTripLength, k \in {0, 1, 3, 7, 11}}

InterpretWritten ==
  /\ ev.op \in {"sendText", "sendBinary"}
  /\ ev' = [ev EXCEPT !.op = "interpreted", !.data = ev.op,
                      !.frag = IF Len(wsWritten) > ev.preW
                               THEN FragmentInterpreter(wsWritten[Len(wsWritten)])
                               ELSE [kind |-> "none"]]
  /\ UNCHANGED meshVars
  /\ UNCHANGED wsVars
  /\ UNCHANGED h2Vars

NextRoundTrip ==
  \/ \E data \in RoundTripPayload : wsSteps = 0 /\ SendText(data)
  \/ \E kind \in DataKind : \E data \in RoundTripPayload :
       wsSteps = 0 /\ SendBinary(kind, data)
  \/ InterpretWritten

SpecRoundTrip == InitWs /\ [][NextRoundTrip]_vars

\* The handshake of a new channel, for every request header and list of
\* accepted protocols.
NextHandshake ==
  \E accepted \in AcceptedProtocols :
    \/ Handshake(NoHeader, accepted)
    \/ \E value \in HeaderValue : Handshake(Header(value), accepted)

SpecHandshake == InitWs /\ [][NextHandshake]_vars

\* One listener, its clients and its peers: clients of any kind reach the
\* first node's listener, and so do the requests of the other nodes.
NextMeshAndClients ==
  \/ Start(TheNode)
  \/ ConnectThrow(TheNode)
  \/ ConnectRest(TheNode)
  \/ MeshListeningHandler(TheNode)
  \/ ClientSession(TheNode)
  \/ ClientStream(TheNode)
  \/ NodeSession(TheNode)
  \/ NodeStream(TheNode)
  \/ \E n \in Node \ {TheNode} :
       \/ Start(n)
       \/ ConnectRest(n)
       \/ \E e \in Entry : ResponseHandler(n, e)
       \/ \E e \in Entry : OutStreamClose(n, e)

SpecMeshAndClients == Init /\ [][NextMeshAndClients]_vars

\* The coordinating process of one node with a registry whose calls can
\* fail: the node starts, its listener binds or fails to, its registration
\* succeeds or fails, clients reach the listener, a worker disconnects.
NextPrimary ==
  \/ Start(TheNode)
  \/ ConnectThrow(TheNode)
  \/ ConnectRest(TheNode)
  \/ MeshListeningHandler(TheNode)
  \/ MeshServerErrorHandler(TheNode)
  \/ RegisterServerFnRejects(TheNode)
  \/ RegisterCatch(TheNode)
  \/ WorkerDisconnectHandler(TheNode)
  \/ ClientSession(TheNode)
  \/ ClientStream(TheNode)

SpecPrimary == Init /\ [][NextPrimary]_vars

\* One channel and the chunks above.
NextCodec == \E fragment \in CodecChunk : DataListener(fragment)

SpecCodec == InitWs /\ [][NextCodec]_vars

\* One H2Session: the requests of its client and what the application does
\* with the streams it is given.
NextH2 ==
  \/ \E method \in Method : \E protocol \in Protocol : StreamListener(method, protocol)
  \/ \E i \in DOMAIN h2Streams : \E endStream \in BOOLEAN : H2StreamRespond(i, endStream)
  \/ \E i \in DOMAIN h2Streams : H2StreamSendData(i)
  \/ \E i \in DOMAIN h2Streams : H2StreamEnd(i)

InitH2 == Init /\ directory = {}

SpecH2 == InitH2 /\ [][NextH2]_vars

\* ------------------------------------------------------------------------
\* Claims
\* ------------------------------------------------------------------------
\* The values of an object.
Values(obj) == {obj[k] : k \in DOMAIN obj}

\* The streams bySession holds, under any session.
InBySession(n) ==
  UNION {Values(bySession[n][k].streams) : k \in DOMAIN bySession[n]}

\* The state follows an inbound handshake that carried both headers.
Handshaken == ev.op = "handshake" /\ ev.ip # Undefined /\ ev.port # Undefined

\* The stream of that handshake and the identity it declared.
HsStream == CHOOSE h \in ev.hset : TRUE

HsKey == ev.ip \o ":" \o ev.port

\* The identity check as the handshake is meant to decide it.
Loopback == {"localhost", "127.0.0.1", "::1"}

SameOrigin(ip, addr) == ip = addr \/ (ip \in Loopback /\ addr \in Loopback)

\* The handshake changed neither index and its stream is in neither.
HsNoLinkRecord ==
  /\ byIPAndPort[ev.node] = ev.pre
  /\ bySession[ev.node] = ev.preS
  /\ HsStream \notin Values(byIPAndPort[ev.node])
  /\ HsStream \notin InBySession(ev.node)

\* C1 (as amended): a handshake declaring an (ip, port) byIPAndPort already
\* holds a link for is answered with 404, or with 400 when the declared
\* mesh-ip does not pass the identity check; its stream is ended, no
\* LinkRecord is created for it, and the first link's record stays in the
\* registry unchanged, its stream still open.
C1_DuplicateRejected ==
  (Handshaken /\ HsKey \in DOMAIN ev.pre) =>
     /\ streams[ev.node][HsStream].status =
          (IF SameOrigin(ev.ip, ev.addr) THEN 404 ELSE 400)
     /\ streams[ev.node][HsStream].st = "ended"
     /\ HsNoLinkRecord
     /\ byIPAndPort[ev.node][HsKey] # HsStream
     /\ streams[ev.node][byIPAndPort[ev.node][HsKey]] =
          [status |-> 200, st |-> "open", key |-> HsKey]

\* C1 as stated: every handshake declaring an (ip, port) byIPAndPort already
\* holds a link for is answered with 404.
C1_DuplicateAlways404 ==
  (Handshaken /\ HsKey \in DOMAIN ev.pre) =>
     streams[ev.node][HsStream].status = 404

C1_Witness ==
  /\ Handshaken
  /\ HsKey \in DOMAIN ev.pre
  /\ streams[ev.node][HsStream].status = 404
  /\ streams[ev.node][byIPAndPort[ev.node][HsKey]].st = "open"

\* C3: a handshake with both headers passes the identity check exactly when
\* the declared mesh-ip equals the observed address or both are loopback
\* variants; when it does not pass it is answered with 400 and ended and no
\* LinkRecord is created. Every link in the registry is held under an ip
\* its session's address passes the check for.
C3_IdentityCheck ==
  /\ Handshaken =>
       IF SameOrigin(ev.ip, ev.addr)
       THEN streams[ev.node][HsStream].status \in {200, 404}
       ELSE /\ streams[ev.node][HsStream].status = 400
            /\ streams[ev.node][HsStream].st = "ended"
            /\ HsNoLinkRecord
  /\ \A n \in Node : \A k \in DOMAIN byIPAndPort[n] :
       \E ip \in HeaderIp \ {Undefined} : \E port \in HeaderPort \ {Undefined} :
         /\ k = ip \o ":" \o port
         /\ SameOrigin(ip, sessions[n][byIPAndPort[n][k][1]].addr)

C3_Witness ==
  /\ Handshaken
  /\ ~SameOrigin(ev.ip, ev.addr)
  /\ ev.ip \in Loopback
  /\ streams[ev.node][HsStream].status = 400

\* C4: a handshake with both headers that passes the identity check and
\* declares an identity without a LinkRecord is answered with 200, and
\* byIPAndPort then holds, besides what it held, a record for exactly the
\* declared (ip, port), which is that stream.
C4_Accepted ==
  (Handshaken /\ SameOrigin(ev.ip, ev.addr) /\ HsKey \notin DOMAIN ev.pre) =>
     /\ pc[ev.node] # "crashed"
     /\ streams[ev.node][HsStream].status = 200
     /\ streams[ev.node][HsStream].st = "open"
     /\ DOMAIN byIPAndPort[ev.node] = (DOMAIN ev.pre) \cup {HsKey}
     /\ byIPAndPort[ev.node][HsKey] = HsStream
     /\ \A k \in DOMAIN ev.pre : byIPAndPort[ev.node][k] = ev.pre[k]

C4_Witness ==
  /\ Handshaken
  /\ ev.ip = "localhost"
  /\ ev.addr = "127.0.0.1"
  /\ DOMAIN ev.pre # {}
  /\ HsKey \notin DOMAIN ev.pre
  /\ byIPAndPort[ev.node][HsKey] = HsStream

\* The links node n has to peer identity p that are alive: inbound streams
\* accepted under p and not closed, and the outbound stream to p once the
\* peer has accepted it.
LiveLinks(n, p) ==
  {<<"in", h>> : h \in {x \in LinkedIn(n) : streams[n][x].key = p}}
  \cup {<<"out", <<0, 0>>>> : x \in {e \in {p} : /\ out[n][e].st = "responded"
                                                  /\ out[n][e].status = 200}}

\* C2: a node never has two live links, inbound and outbound counted
\* together, to the same peer identity.
C2_OneLinkPerPeer ==
  \A n \in Node : \A p \in Entry : Cardinality(LiveLinks(n, p)) <= 1

\* C5: when a linked stream or its session has closed, the record of the
\* link is in neither index, and a handshake declaring the same (ip, port)
\* from an address that passes the identity check is accepted.
C5_ClosedLinkRemoved ==
  ev.op \in {"inClose", "sessionClose", "outClose"} =>
     /\ \A h \in ev.hset :
          /\ h \notin Values(byIPAndPort[ev.node])
          /\ h \notin InBySession(ev.node)
     /\ \A k \in ev.keys :
          /\ k \notin DOMAIN byIPAndPort[ev.node]
          /\ \A ip \in HeaderIp \ {Undefined} : \A port \in {ToString(MeshPort(m)) : m \in Node} :
             \A addr \in RemoteAddr :
               (ip \o ":" \o port = k /\ SameOrigin(ip, addr))
                  => HandshakeStatus(byIPAndPort[ev.node], ip, port, addr) = 200

C5_Witness ==
  /\ ev.op = "inClose"
  /\ ev.keys \subseteq DOMAIN ev.pre
  /\ ev.keys # {}
  /\ \A k \in ev.keys : k \notin DOMAIN byIPAndPort[ev.node]

\* C6: when a peer answers an outbound stream with success, the connecting
\* node's byIPAndPort holds a record for that peer's identity and the
\* "ping" has been written on the stream.
C6_OutboundLinkRecorded ==
  (ev.op = "response" /\ out[ev.node][ev.e].status = 200) =>
     /\ ev.e \in DOMAIN byIPAndPort[ev.node]
     /\ out[ev.node][ev.e].pinged

\* The entries node n has called http2.connect for.
Attempted(n) == {e \in Entry : out[n][e].st # "none"}

\* C7: no outbound session is ever opened to the node's own "ip:port", and
\* when the connect loop is through, the entries attempted are exactly the
\* list the directory returned minus the node's own "ip:port".
C7_SelfFiltered ==
  /\ \A n \in Node : out[n][Self(n)].st = "none"
  /\ ev.op = "connected" => Attempted(ev.node) = ev.list \ {Self(ev.node)}

C7_Witness ==
  /\ ev.op = "connected"
  /\ Self(ev.node) \in ev.list
  /\ Attempted(ev.node) # {}

C9_RegisteredAfterListening ==
  \A n \in Node : regCalled[n] => server[n] \in {"listening", "closed"}

C9_Witness ==
  \E n \in Node : regCalled[n] /\ server[n] = "listening" /\ Self(n) \in directory

\* The place of a step in the log of the shutdown handler (0: not taken).
Place(n, step) ==
  IF \E i \in DOMAIN shutLog[n] : shutLog[n][i] = step
  THEN CHOOSE i \in DOMAIN shutLog[n] : shutLog[n][i] = step
  ELSE 0

\* C10: while the shutdown handler waits for the unregister-self call, no
\* worker has been told to disconnect and neither the listener nor a link
\* has been closed by it; afterwards the steps were taken in the order
\* unregister, workers, links and listener, exit timer.
C10_ShutdownOrder ==
  \A n \in Node :
    /\ pc[n] = "sigint" =>
         /\ shutLog[n] = <<"unregister">>
         /\ workers[n] = "connected"
         /\ server[n] # "closed"
         /\ \A h \in DOMAIN streams[n] : streams[n][h].st # "closing"
         /\ \A s \in DOMAIN sessions[n] : sessions[n][s].st # "closing"
    /\ pc[n] = "exiting" =>
         /\ Place(n, "unregister") = 1
         /\ Place(n, "unregister") < Place(n, "disconnectWorkers")
         /\ Place(n, "disconnectWorkers") < Place(n, "closeListener")
         /\ Place(n, "disconnectWorkers") < Place(n, "closeLinks")
         /\ Place(n, "closeListener") < Place(n, "armTimer")
         /\ Place(n, "closeLinks") < Place(n, "armTimer")
         /\ workers[n] = "disconnected"
         /\ server[n] = "closed"

C10_Witness ==
  \E n \in Node :
    /\ pc[n] = "exiting"
    /\ Len(shutLog[n]) = 1 + Len(ShutdownSteps)
    /\ \E h \in DOMAIN streams[n] : streams[n][h].st = "closing"

\* C11: after the shutdown signal the handler always gets to arm the exit
\* timer, and the process ends.
C11_ShutdownExits ==
  \A n \in Node :
    /\ (pc[n] = "sigint") ~> (Place(n, "armTimer") # 0)
    /\ (pc[n] = "sigint") ~> (pc[n] \in {"exited", "crashed"})

\* The outbound links of node n that are established and not closed.
LinkedOut(n) == {e \in Entry : out[n][e].st = "responded" /\ out[n][e].status = 200}

\* C12: when the shutdown sequence has run, every inbound link has its
\* stream and its session closing or closed, and no outbound link is left
\* open.
C12_AllLinksClosed ==
  ev.op = "shutdown" =>
     /\ \A h \in LinkedIn(ev.node) :
          /\ streams[ev.node][h].st = "closing"
          /\ sessions[ev.node][h[1]].st \in {"closing", "closed"}
     /\ LinkedOut(ev.node) = {}

\* C13: a message a worker hands to the coordinator for a peer identity is
\* written to no stream when byIPAndPort holds no record for that identity,
\* and to exactly the stream recorded for it, once, when it does.
C13_RelayThroughRegistry ==
  ev.op = "workerMessage" =>
     ev.sent = (IF ev.e \in DOMAIN ev.pre THEN {ev.pre[ev.e]} ELSE {})

\* C14: a chunk arriving on an established link produces exactly one
\* message event, which carries that chunk's payload.
C14_DataDelivered ==
  ev.op = "data" => ev.emitted = <<ev.data>>

\* The (ip, port) of node n's configuration, as "ip:port".
Configured(n) == ConfigIp(n) \o ":" \o ToString(ConfigPort(n))

\* C15: the identity a node registers once it listens, and the identity it
\* declares in the headers of its outbound handshakes, is the (ip, port) of
\* its configuration; its own entry is what the connect loop filters out.
C15_ConfiguredIdentity ==
  /\ ev.op = "listening" =>
       /\ ev.ip \o ":" \o ev.port = Configured(ev.node)
       /\ Configured(ev.node) \in directory
  /\ (ev.op = "handshake" /\ sessions[ev.node][HsStream[1]].from \in Node) =>
       ev.ip \o ":" \o ev.port = Configured(sessions[ev.node][HsStream[1]].from)
  /\ ev.op = "connected" => Configured(ev.node) \notin Attempted(ev.node)

\* C16: the buffer sendText or sendBinary writes for a payload of 0, 1,
\* 125, 126, 127, 65535 or 65536 bytes is interpreted as a fragment with the
\* same opcode, the final bit set, payloadLength the length of the payload
\* and the payload itself.
C16_RoundTrip ==
  ev.op = "interpreted" =>
     /\ ~ev.threw
     /\ ev.frag.kind = "fragment"
     /\ ev.frag.opcode = (IF ev.data = "sendText" THEN TEXT ELSE BINARY)
     /\ ev.frag.isFinal # 0
     /\ ev.frag.payloadLength = Number(Len(ev.chunk))
     /\ ev.frag.payload = ev.chunk

\* The buffers the last handler or method wrote.
JustWritten == SubSeq(wsWritten, ev.preW + 1, Len(wsWritten))

\* The events the last handler or method emitted.
JustEmitted == SubSeq(wsEmitted, ev.preE + 1, Len(wsEmitted))

\* C17: a call of sendText, sendBinary, ping, pong or close on a channel
\* whose stream has not been ended writes exactly one frame, which has the
\* final bit set and the mask bit clear.
C17_OneFramePerCall ==
  (ev.op \in {"sendText", "sendBinary", "ping", "pong", "close"} /\ ~ev.preEnded) =>
     /\ ~ev.threw
     /\ Len(JustWritten) = 1
     /\ JustWritten[1][1] >= FINAL
     /\ JustWritten[1][2] < FINAL

\* The accumulator as the data listener left it for #parseFrame.
Accumulated == Append(ev.preFrags, ev.frag)

\* A message in fragments: the first Text or Binary, the others
\* Continuation, none but possibly the last final.
DataMessage(fragments) ==
  /\ \A i \in 1..Len(fragments) : fragments[i].kind = "fragment"
  /\ fragments[1].opcode \in {TEXT, BINARY}
  /\ \A i \in 2..Len(fragments) : fragments[i].opcode = CONTINUATION
  /\ \A i \in 1..(Len(fragments) - 1) : fragments[i].isFinal = 0

\* The payload a fragment carries, its mask taken off.
Plain(fragment) ==
  [i \in 1..Len(fragment.payload) |->
     IF fragment.usesMasking
     THEN Xor(fragment.payload[i], fragment.maskingKey[((i - 1) % 4) + 1])
     ELSE fragment.payload[i]]

RECURSIVE PlainMessage(_)
PlainMessage(fragments) ==
  IF fragments = << >> THEN << >>
  ELSE Plain(Head(fragments)) \o PlainMessage(Tail(fragments))

\* C18: while the fragments of a message arrive and none is final, no
\* event is emitted and they are kept; when the final one arrives exactly
\* one frame event is emitted, with the opcode of the first fragment and
\* the payloads of all fragments, unmasked, in order, as text decoded from
\* UTF-8 for Text and as bytes for Binary, and the accumulator is empty.
C18_Reassembly ==
  (ev.op = "data" /\ ev.frag.kind = "fragment" /\ DataMessage(Accumulated)) =>
     IF ev.frag.isFinal = 0
     THEN /\ JustEmitted = << >>
          /\ currentFrameFragments = Accumulated
     ELSE /\ Len(JustEmitted) = 1
          /\ JustEmitted[1].name = "frame"
          /\ JustEmitted[1].opcode = Accumulated[1].opcode
          /\ JustEmitted[1].payload =
               (IF Accumulated[1].opcode = TEXT
                THEN [string |-> TRUE, data |-> Utf8Decode(PlainMessage(Accumulated))]
                ELSE [string |-> FALSE, data |-> PlainMessage(Accumulated)])
          /\ currentFrameFragments = << >>

C18_Witness ==
  /\ ev.op = "data"
  /\ Len(ev.preFrags) = 2
  /\ DataMessage(Accumulated)
  /\ \E i \in 1..2 : ev.preFrags[i].usesMasking
  /\ Len(JustEmitted) = 1
  /\ JustEmitted[1].payload = [string |-> TRUE, data |-> <<233>>]

\* C19: a final Ping arriving while non-final fragments of a data message
\* are in the accumulator makes the channel write one Pong frame at once
\* and leaves the accumulator holding exactly those fragments.
C19_PingMidMessage ==
  (/\ ev.op = "data"
   /\ ~ev.preEnded
   /\ ev.preFrags # << >>
   /\ DataMessage(ev.preFrags)
   /\ ev.preFrags[Len(ev.preFrags)].isFinal = 0
   /\ ev.frag.kind = "fragment"
   /\ ev.frag.opcode = PING
   /\ ev.frag.isFinal # 0) =>
     /\ ~ev.threw
     /\ JustWritten = << <<FINAL + PONG, 0>> >>
     /\ currentFrameFragments = ev.preFrags

\* C20: a final Close frame ends the stream, and on a channel whose stream
\* has been ended no chunk produces an event or a write.
C20_ClosedAfterClose ==
  /\ (ev.op = "data" /\ ev.frag.kind = "fragment" /\ ev.frag.opcode = CLOSE
        /\ ev.frag.isFinal # 0) => wsStreamEnded
  /\ (ev.op = "data" /\ ev.preEnded) =>
        /\ JustEmitted = << >>
        /\ JustWritten = << >>

RECURSIVE StripSpaces(_)
\* A string without the spaces around it, and the members of a list with
\* the spaces around each dropped.
StripSpaces(s) ==
  IF s = << >> THEN << >>
  ELSE IF Head(s) = " " THEN StripSpaces(Tail(s))
  ELSE IF s[Len(s)] = " " THEN StripSpaces(SubSeq(s, 1, Len(s) - 1))
  ELSE s

RECURSIVE Split_Trimmed(_)
Split_Trimmed(s) ==
  IF FirstComma(s) = 0 THEN <<StripSpaces(s)>>
  ELSE <<StripSpaces(SubSeq(s, 1, FirstComma(s) - 1))>>
         \o Split_Trimmed(SubSeq(s, FirstComma(s) + 1, Len(s)))

\* The protocols a request asks for: the members of the comma-separated
\* list, the optional spaces around them not counted, empty members left out.
RECURSIVE NonEmpty(_)
NonEmpty(list) ==
  IF list = << >> THEN << >>
  ELSE (IF Head(list) = << >> THEN << >> ELSE <<Head(list)>>) \o NonEmpty(Tail(list))

Requested(header) ==
  IF header.present /\ header.value # << >> THEN NonEmpty(Split_Trimmed(header.value)) ELSE << >>

\* C21: the handshake answers with status 200, and the protocol header of
\* the response is the requested protocols that are accepted, in the order
\* of the request, joined by commas; it is absent when there is none.
C21_ProtocolEcho ==
  ev.op = "wsHandshake" =>
     /\ ev.status = 200
     /\ ev.response = (IF Filter(Requested(ev.request), ev.accepted) = << >>
                       THEN NoHeader
                       ELSE Header(Join(Filter(Requested(ev.request), ev.accepted))))

\* C22: an outbound stream whose response carries status 400 or 404 gets no
\* relay handlers and no "ping" is written on it.
C22_RefusedIsNoLink ==
  (ev.op = "response" /\ out[ev.node][ev.e].status \in {400, 404}) =>
     /\ ~out[ev.node][ev.e].attached
     /\ ~out[ev.node][ev.e].pinged

\* C23: an inbound stream without mesh-ip or without mesh-port is answered
\* with 400 and ended; it and every other rejected handshake create no
\* LinkRecord and leave both indexes as they were.
C23_MissingHeaderRejected ==
  /\ (ev.op = "handshake" /\ (ev.ip = Undefined \/ ev.port = Undefined)) =>
        /\ pc[ev.node] # "crashed"
        /\ streams[ev.node][HsStream].status = 400
        /\ streams[ev.node][HsStream].st = "ended"
        /\ HsNoLinkRecord
  /\ (ev.op = "handshake" /\ pc[ev.node] # "crashed"
                          /\ streams[ev.node][HsStream].status # 200) =>
        /\ streams[ev.node][HsStream].st = "ended"
        /\ HsNoLinkRecord

C23_Witness ==
  /\ ev.op = "handshake"
  /\ ev.ip = "localhost"
  /\ ev.port = Undefined
  /\ ev.addr = "127.0.0.1"
  /\ DOMAIN ev.pre # {}
  /\ streams[ev.node][HsStream].status = 400
  /\ byIPAndPort[ev.node] = ev.pre

\* C24: the two indexes hold the same links: every stream byIPAndPort holds
\* is in bySession under its session and its stream id, and every stream
\* bySession holds is in byIPAndPort under exactly one identity.
C24_IndexesAgree ==
  \A n \in Node :
    /\ \A k \in DOMAIN byIPAndPort[n] :
         \E sid \in DOMAIN bySession[n] :
            /\ byIPAndPort[n][k][2] \in DOMAIN bySession[n][sid].streams
            /\ bySession[n][sid].streams[byIPAndPort[n][k][2]] = byIPAndPort[n][k]
    /\ \A h \in InBySession(n) :
         Cardinality({k \in DOMAIN byIPAndPort[n] : byIPAndPort[n][k] = h}) = 1

\* C25: the close of a stream removes the record of that stream alone: a
\* record byIPAndPort held for another stream, still open, is unchanged.
C25_OnlyOwnRecordRemoved ==
  (ev.op \in {"outClose", "inClose"}) =>
     \A k \in DOMAIN ev.pre :
        (ev.pre[k] \notin ev.hset /\ ev.pre[k] \in LinkedIn(ev.node)) =>
           /\ k \in DOMAIN byIPAndPort[ev.node]
           /\ byIPAndPort[ev.node][k] = ev.pre[k]

\* C26: a rejected unregister call is not fatal and the sequence that made
\* the call goes on: after the rejection of the call of the shutdown
\* handler the process has not ended abnormally and the handler is at or
\* past its await.
C26_UnregisterFailureTolerated ==
  (ev.op = "unRegisterRejects") =>
     /\ pc[ev.node] # "crashed"
     /\ pc[ev.node] \in {"sigint", "exiting"}

\* C27: when the node's registration fails the process exits with status 1:
\* the catch callback of a rejected registration is always ready to run, it
\* ends the process, and a node that is listening with no failed
\* registration pending is in the directory.
C27_RegistrationFailureFatal ==
  /\ (ev.op = "registerCatch") => pc[ev.node] = "exit1"
  /\ \A n \in Node : (pc[n] = "registering") => ENABLED RegisterCatch(n)
  /\ \A n \in Node : (pc[n] = "started" /\ server[n] = "listening") => Self(n) \in directory

C27_Witness ==
  /\ ev.op = "registerCatch"
  /\ pc[ev.node] = "exit1"
  /\ Self(ev.node) \notin directory

\* C28: when the listener fails to bind, the process exits with a non-zero
\* status and the node has not been registered.
C28_BindFailureFatal ==
  (ev.op = "serverError") =>
     /\ pc[ev.node] \in {"crashed", "exit1"}
     /\ ~regCalled[ev.node]

\* C29: when a worker disconnects, the coordinating process emits one
\* workerDisconnect event that names the worker, and does not fail.
C29_WorkerDisconnectEmitted ==
  (ev.op = "workerDisconnect") =>
     /\ pc[ev.node] # "crashed"
     /\ Len(ev.emitted) = 1
     /\ ev.emitted[1].event = "workerDisconnect"

\* C30: the frame sendText writes for a payload of n bytes carries the
\* shortest length field: the byte n below 126; 126 and n in two bytes below
\* 65536; 127 and n in eight bytes from there on; the payload follows.
C30_MinimalLengthEncoding ==
  (ev.op = "sendText") =>
     /\ ~ev.threw
     /\ Len(JustWritten) = 1
     /\ LET n == Len(ev.chunk)
            f == JustWritten[1]
        IN IF n < 126
           THEN Len(f) = 2 + n /\ f[2] = n
           ELSE IF n < 65536
           THEN Len(f) = 4 + n /\ f[2] = 126 /\ (f[3] * 256) + f[4] = n
           ELSE /\ Len(f) = 10 + n
                /\ f[2] = 127
                /\ \A i \in 3..6 : f[i] = 0
                /\ (f[7] * 16777216) + (f[8] * 65536) + (f[9] * 256) + f[10] = n

RECURSIVE Reverse(_)
Reverse(s) == IF s = << >> THEN << >> ELSE Reverse(Tail(s)) \o <<Head(s)>>

\* C31: for a length field of 126 payloadLength is the big-endian value of
\* the bytes 2..3 of the chunk, for 127 that of the bytes 2..9; the masking
\* key and the payload are read after those bytes.
C31_ExtendedLength ==
  (/\ ev.op = "data"
   /\ Len(ev.chunk) >= 2
   /\ ev.chunk[2] % 128 \in {126, 127}
   /\ Len(ev.chunk) >= 2 + (IF ev.chunk[2] % 128 = 126 THEN 2 ELSE 8)) =>
     LET c == ev.chunk
         n == IF c[2] % 128 = 126 THEN 2 ELSE 8
         k == IF c[2] >= 128 THEN 4 ELSE 0
     IN /\ ev.frag.kind = "fragment"
        /\ (n = 2) => ev.frag.payloadLength.value = (c[3] * 256) + c[4]
        /\ (n = 8) => ev.frag.payloadLength.digits = Reverse(SubSeq(c, 3, 10))
        /\ ev.frag.maskingKey = SubSeq(c, 3 + n, 2 + n + k)
        /\ ev.frag.payload = SubSeq(c, 3 + n + k, Len(c))

\* C32: ping() writes the frame of opcode Ping and pong() the frame of
\* opcode Pong, each with a payload of length zero.
C32_PingAndPongFrames ==
  /\ (ev.op = "ping" /\ ~ev.preEnded) =>
        /\ ~ev.threw
        /\ JustWritten = << <<FINAL + PING, 0>> >>
  /\ (ev.op = "pong" /\ ~ev.preEnded) =>
        /\ ~ev.threw
        /\ JustWritten = << <<FINAL + PONG, 0>> >>

\* C33: a message of bytes is the payloads of its fragments in order, each
\* byte of a masked fragment XORed with maskingKey[i mod 4], i counted from
\* the start of that fragment's payload, the bytes of a plain fragment as
\* they are; a payload masked with a key and received is the payload.
C33_Unmasking ==
  /\ (/\ ev.op = "data"
      /\ ev.frag.kind = "fragment"
      /\ Len(JustEmitted) = 1
      /\ JustEmitted[1].name = "frame"
      /\ JustEmitted[1].type # "text") =>
        JustEmitted[1].payload = [string |-> FALSE, data |-> PlainMessage(Accumulated)]
  /\ \A key \in {<< >>, MaskingKey} :
        (/\ ev.op = "data"
         /\ ev.preFrags = << >>
         /\ ev.chunk = WireFragment(1, BINARY, key, <<1, 2, 3, 4, 5>>)) =>
           /\ Len(JustEmitted) = 1
           /\ JustEmitted[1].payload = [string |-> FALSE, data |-> <<1, 2, 3, 4, 5>>]

C33_Witness ==
  /\ ev.op = "data"
  /\ ev.frag.kind = "fragment"
  /\ Len(ev.preFrags) = 1
  /\ ev.preFrags[1].usesMasking
  /\ ev.frag.usesMasking
  /\ Len(JustEmitted) = 1
  /\ JustEmitted[1].payload = [string |-> FALSE, data |-> <<1, 2, 3, 4, 5, 1, 2, 3, 4, 5>>]

\* C34: a control fragment (opcode 8 or more) without the final bit ends
\* the stream and is not kept in the accumulator.
C34_SplitControlRejected ==
  (/\ ev.op = "data"
   /\ ev.frag.kind = "fragment"
   /\ ev.frag.opcode >= 8
   /\ ev.frag.isFinal = 0) =>
     /\ wsStreamEnded
     /\ currentFrameFragments = ev.preFrags

\* C35: a fragment whose opcode is 3..7 or 11..15 ends the stream, and no
\* frame event is emitted for it.
C35_UnknownOpcodeRejected ==
  (/\ ev.op = "data"
   /\ ev.frag.kind = "fragment"
   /\ ev.frag.opcode \in (3..7) \cup (11..15)) =>
     /\ wsStreamEnded
     /\ \A i \in 1..Len(JustEmitted) : JustEmitted[i].name # "frame"

\* C36: a chunk of zero length raises no error, emits and writes nothing and
\* leaves the accumulator as it was.
C36_EmptyChunkIgnored ==
  (ev.op = "data" /\ ev.chunk = << >>) =>
     /\ ~ev.threw
     /\ JustEmitted = << >>
     /\ JustWritten = << >>
     /\ currentFrameFragments = ev.preFrags

\* C37: when a chunk has been processed the accumulator holds non-final
\* data fragments only: every fragment in it is one.
C37_AccumulatorHoldsOpenMessage ==
  \A i \in 1..Len(currentFrameFragments) :
     currentFrameFragments[i].kind = "fragment" =>
        /\ currentFrameFragments[i].isFinal = 0
        /\ currentFrameFragments[i].opcode < 8

\* C38: in the accumulator the first fragment is Text or Binary and the
\* others are Continuation, and every frame event reports Text or Binary.
C38_OpcodesOfAMessage ==
  /\ \A i \in 1..Len(currentFrameFragments) :
        currentFrameFragments[i].kind = "fragment" =>
           IF i = 1 THEN currentFrameFragments[i].opcode \in {TEXT, BINARY}
           ELSE currentFrameFragments[i].opcode = CONTINUATION
  /\ \A i \in 1..Len(wsEmitted) :
        wsEmitted[i].name = "frame" => wsEmitted[i].opcode \in {TEXT, BINARY}

\* C39: events are emitted in the order of the chunks: a step adds to the
\* end of what has been emitted and changes nothing before it; a frame
\* event is added by the chunk of a final fragment alone, one per chunk,
\* and is made of the fragments accumulated before and of that fragment,
\* which are then dropped from the accumulator.
C39_ArrivalOrder ==
  [][/\ Len(wsEmitted') >= Len(wsEmitted)
     /\ SubSeq(wsEmitted', 1, Len(wsEmitted)) = wsEmitted
     /\ \A i \in (Len(wsEmitted) + 1)..Len(wsEmitted') :
          wsEmitted'[i].name = "frame" =>
             /\ ev'.op = "data"
             /\ ev'.frag.kind = "fragment"
             /\ ev'.frag.isFinal # 0
             /\ Len(wsEmitted') = Len(wsEmitted) + 1
             /\ wsEmitted'[i] = FrameDetails(Append(currentFrameFragments, ev'.frag))
             /\ currentFrameFragments' = << >>]_vars

C39_Witness ==
  /\ ev.op = "data"
  /\ Len(wsEmitted) = 2
  /\ wsEmitted[1].name = "frame"
  /\ wsEmitted[2].name = "frame"
  /\ wsEmitted[1].type = "binary"
  /\ wsEmitted[2].type = "text"
  /\ ev.preE = 1

\* How often a call was made on a stream.
Count(calls, call) == Cardinality({j \in DOMAIN calls : calls[j] = call})

\* C40: on every stream of the session respond is called at most once, and
\* after a stream has been closed as refused nothing is sent on it.
C40_AtMostOneResponse ==
  \A i \in DOMAIN h2Streams :
     /\ Count(h2Streams[i].calls, "respond") <= 1
     /\ \A j \in DOMAIN h2Streams[i].calls : \A k \in DOMAIN h2Streams[i].calls :
          (h2Streams[i].calls[j] = "close" /\ k > j) =>
             h2Streams[i].calls[k] \notin {"respond", "write"}

====
